---- MODULE Spec2Model ----
(***************************************************************************)
(* A model of VebTreeMap<u8, V> (src/src/lib.rs): the recursive van Emde   *)
(* Boas node with lazy min/max, optional summary and a sparse cluster      *)
(* table, driven by insert / remove / get / successor / predecessor calls  *)
(* and run in lock-step with a reference ordered map.                      *)
(***************************************************************************)
EXTENDS Integers, Sequences, FiniteSets, TLC

\* ------------------------------------------------------------------ bounds
\* The calls draw their keys from the first NumKeys entries of KeySeq.
NumKeys == 5

\* -------------------------------------------------------- program constants
\* u8::BITS: the key type of the modelled instance, impl_veb_key!(u8).
BITS == 8

\* Option<T>: None, Some(x).
None == <<>>
Some(x) == <<x>>
\* The unit value () stored by a summary, VebTreeMap<K, ()>.
Unit == "()"

\* Self::MAX of the key type.
MAX == 2 ^ BITS - 1

\* Bitwise and of two naturals (the & of the key type).
RECURSIVE BitAnd(_, _)
BitAnd(a, b) ==
  IF a = 0 \/ b = 0 THEN 0
  ELSE (a % 2) * (b % 2) + 2 * BitAnd(a \div 2, b \div 2)

\* ------------------------------------------------------------ key arithmetic
\* VebKey::max_size for u8.
max_size == BITS

\* VebKey::size_to_key: the largest key of a universe of universe_size bits.
size_to_key(universe_size) ==
  IF universe_size = max_size THEN MAX ELSE 2 ^ universe_size - 1

\* cluster_size without the shift: a child as wide as its parent.
cluster_size_NoHalving(universe_size) == universe_size

\* VebKey::cluster_size: universe_size >> 1.
cluster_size(universe_size) == universe_size \div 2

\* VebKey::high: self >> cluster_size.
high(key, cs) == key \div (2 ^ cs)

\* cluster_size - 1 in u8 underflows when cluster_size = 0: a panic in a build
\* with overflow checks (the test profile, where max_size is compiled in).
LowOverflows(cs) == cs = 0

\* VebKey::low, as written: self & (cluster_size - 1) as Self, the mask being
\* the bit COUNT minus one; the u8 subtraction wraps when checks are off.
low(key, cs) == BitAnd(key, (cs - 1) % (2 ^ 8))

\* (self << cluster_size) + low overflows the key type.
IndexOverflows(h, l, cs) == ((h * 2 ^ cs) % (2 ^ BITS)) + l > MAX

\* VebKey::index: (self << cluster_size) + low; << drops the bits shifted out.
index(h, l, cs) == (((h * 2 ^ cs) % (2 ^ BITS)) + l) % (2 ^ BITS)

\* ------------------------------------------------------------------ the node
\* VebTreeMap::with_max_size.
with_max_size(ms) ==
  [min |-> None, max |-> None, summary |-> None, clusters |-> <<>>,
   cluster_size |-> cluster_size(ms), max_size |-> ms]

\* VebTreeMap::new.
new == with_max_size(max_size)

\* VebTreeMap::is_empty.
is_empty(t) == t.min = None

\* clear with only min and max reset: the summary and the clusters stay.
clear_KeepsChildren(t) == [t EXCEPT !.min = None, !.max = None]

\* VebTreeMap::clear: *self = Self::new().
clear(t) == new

\* The assert! on entry of get / insert / remove / successor / predecessor
\* (compiled under cfg(test) or the safety_checks feature) fails.
KeyAssertFails(t, key) == key > size_to_key(t.max_size)

\* ------------------------------------------------------------------ results
\* The outcome of a query: a value, or a panic unwinding out of the call.
Ok(x) == [err |-> FALSE, r |-> x]
Panic == [err |-> TRUE, r |-> None]
\* The outcome of a mutation: the node afterwards and the returned value.
OkT(t, x) == [err |-> FALSE, t |-> t, r |-> x]
PanicT(t) == [err |-> TRUE, t |-> t, r |-> None]

\* HashMap::insert / entry: the table with key h bound to node c.
Put(clusters, h, c) ==
  [x \in (DOMAIN clusters) \cup {h} |-> IF x = h THEN c ELSE clusters[x]]

\* VebTreeMap::min and VebTreeMap::max: a copy of the stored pair.
Min(t) == t.min
Max(t) == t.max

\* --------------------------------------------------------------------- get
\* VebTreeMap::get.
RECURSIVE Get(_, _)
Get(t, key) ==
  IF KeyAssertFails(t, key) THEN Panic
  ELSE IF t.min # None /\ key < t.min[1][1] THEN Ok(None)
  ELSE IF t.min # None /\ key = t.min[1][1] THEN Ok(Some(t.min[1][2]))
  ELSE IF t.max # None /\ key > t.max[1][1] THEN Ok(None)
  ELSE IF t.max # None /\ key = t.max[1][1] THEN Ok(Some(t.max[1][2]))
  ELSE LET h == high(key, t.cluster_size) IN
       IF h \notin DOMAIN t.clusters THEN Ok(None)
       ELSE IF LowOverflows(t.cluster_size) THEN Panic
       ELSE Get(t.clusters[h], low(key, t.cluster_size))

\* ------------------------------------------------------------------ insert
\* Lines 141-151 of insert: the (key, value) in hand against the min.
\* Gives the new min, the pair now in hand and the return value so far.
InsertMinStep(t, key, value) ==
  LET mk == t.min[1][1]
      mv == t.min[1][2]
  IN IF t.min = None THEN [min |-> t.min, key |-> key, value |-> value, ret |-> None]
     ELSE IF key < mk
       THEN [min |-> Some(<<key, value>>), key |-> mk, value |-> mv, ret |-> None]
     ELSE IF key = mk
       THEN [min |-> Some(<<mk, value>>), key |-> key, value |-> value, ret |-> Some(mv)]
     ELSE [min |-> t.min, key |-> key, value |-> value, ret |-> None]

\* InsertMaxStep with the update of the max's value forgotten when the key in
\* hand is the max key: the old value is returned and stays stored.
InsertMaxStep_KeepsOldValue(t, key, value, ret) ==
  LET xk == t.max[1][1]
      xv == t.max[1][2]
  IN IF t.max = None THEN [max |-> t.max, key |-> key, value |-> value, ret |-> ret]
     ELSE IF key > xk
       THEN [max |-> Some(<<key, value>>), key |-> xk, value |-> xv, ret |-> ret]
     ELSE IF key = xk
       THEN [max |-> t.max, key |-> key, value |-> value, ret |-> Some(xv)]
     ELSE [max |-> t.max, key |-> key, value |-> value, ret |-> ret]

\* Lines 152-161 of insert: the pair in hand against the max.
InsertMaxStep(t, key, value, ret) ==
  LET xk == t.max[1][1]
      xv == t.max[1][2]
  IN IF t.max = None THEN [max |-> t.max, key |-> key, value |-> value, ret |-> ret]
     ELSE IF key > xk
       THEN [max |-> Some(<<key, value>>), key |-> xk, value |-> xv, ret |-> ret]
     ELSE IF key = xk
       THEN [max |-> Some(<<xk, value>>), key |-> key, value |-> value, ret |-> Some(xv)]
     ELSE [max |-> t.max, key |-> key, value |-> value, ret |-> ret]

\* VebTreeMap::insert.
RECURSIVE Insert(_, _, _)
Insert(t, key0, value0) ==
  IF KeyAssertFails(t, key0) THEN PanicT(t)
  ELSE IF is_empty(t)
    THEN OkT([t EXCEPT !.min = Some(<<key0, value0>>),
                       !.max = Some(<<key0, value0>>)], None)
  ELSE
    LET a == InsertMinStep(t, key0, value0)
        b == InsertMaxStep(t, a.key, a.value, a.ret)
        t1 == [t EXCEPT !.min = a.min, !.max = b.max]
        key == b.key
        value == b.value
    IN IF b.ret # None THEN OkT(t1, b.ret)
       ELSE IF t1.min # None /\ key = t1.min[1][1] THEN OkT(t1, None)
       ELSE
         LET cs == t.cluster_size
             h == high(key, cs)
             cluster == IF h \in DOMAIN t1.clusters THEN t1.clusters[h]
                        ELSE with_max_size(cs)
             opened == [t1 EXCEPT !.clusters = Put(t1.clusters, h, cluster)]
             sum0 == IF t1.summary = None THEN with_max_size(cs)
                     ELSE t1.summary[1]
             si == IF is_empty(cluster) THEN Insert(sum0, h, Unit)
                   ELSE OkT(sum0, None)
             t2 == IF is_empty(cluster)
                     THEN [opened EXCEPT !.summary = Some(si.t)]
                     ELSE opened
         IN IF si.err THEN PanicT(t2)
            ELSE IF LowOverflows(cs) THEN PanicT(t2)
            ELSE LET ci == Insert(cluster, low(key, cs), value)
                     t3 == [t2 EXCEPT !.clusters = Put(t2.clusters, h, ci.t)]
                 IN IF ci.err THEN PanicT(t3) ELSE OkT(t3, ci.r)

\* ------------------------------------------------------------------ remove
\* self.summary.as_ref().and_then(|summary| summary.min()).
SummaryMin(t) == IF t.summary = None THEN None ELSE Min(t.summary[1])

\* self.summary.as_ref().and_then(|summary| summary.max()).
SummaryMax(t) == IF t.summary = None THEN None ELSE Max(t.summary[1])

\* Lines 205-230 of remove: the key is the min. Gives the node with its new
\* min and the key that is removed from the clusters instead; done = the
\* early return of the None arm; err = one of the two expect() calls or the
\* index arithmetic panics.
RemoveMinStep(t, key) ==
  IF t.min = None \/ key # t.min[1][1]
    THEN [err |-> FALSE, done |-> FALSE, t |-> t, key |-> key]
  ELSE IF SummaryMin(t) = None
    THEN [err |-> FALSE, done |-> TRUE,
          t |-> [t EXCEPT !.min = None, !.max = None], key |-> key]
  ELSE
    LET summary_min == SummaryMin(t)[1][1] IN
    IF summary_min \notin DOMAIN t.clusters
      THEN [err |-> TRUE, done |-> TRUE, t |-> t, key |-> key]
    ELSE IF Min(t.clusters[summary_min]) = None
      THEN [err |-> TRUE, done |-> TRUE, t |-> t, key |-> key]
    ELSE
      LET cm == Min(t.clusters[summary_min])[1]
          new_min_key == index(summary_min, cm[1], t.cluster_size)
      IN IF IndexOverflows(summary_min, cm[1], t.cluster_size)
           THEN [err |-> TRUE, done |-> TRUE, t |-> t, key |-> key]
         ELSE [err |-> FALSE, done |-> FALSE,
               t |-> [t EXCEPT !.min = Some(<<new_min_key, cm[2]>>)],
               key |-> new_min_key]

\* Lines 242-265 of remove: the removed key is the max; the new max is the
\* max of the summary's last cluster, or the min when the summary has none.
RemoveMaxStep(t, key) ==
  IF t.max = None \/ key # t.max[1][1] THEN OkT(t, None)
  ELSE IF SummaryMax(t) = None THEN OkT([t EXCEPT !.max = t.min], None)
  ELSE
    LET summary_max == SummaryMax(t)[1][1] IN
    IF summary_max \notin DOMAIN t.clusters THEN PanicT(t)
    ELSE IF Max(t.clusters[summary_max]) = None THEN PanicT(t)
    ELSE
      LET cx == Max(t.clusters[summary_max])[1]
          new_max_key == index(summary_max, cx[1], t.cluster_size)
      IN IF IndexOverflows(summary_max, cx[1], t.cluster_size) THEN PanicT(t)
         ELSE OkT([t EXCEPT !.max = Some(<<new_max_key, cx[2]>>)], None)

\* VebTreeMap::remove.
RECURSIVE Remove(_, _)
Remove(t, key0) ==
  IF KeyAssertFails(t, key0) THEN PanicT(t)
  ELSE
    LET m == RemoveMinStep(t, key0) IN
    IF m.err THEN PanicT(m.t)
    ELSE IF m.done THEN OkT(m.t, None)
    ELSE
      LET key == m.key
          cs == t.cluster_size
          h == high(key, cs)
          inTable == h \in DOMAIN m.t.clusters
          cr == IF inTable /\ ~LowOverflows(cs)
                  THEN Remove(m.t.clusters[h], low(key, cs))
                  ELSE OkT(None, None)
          t1 == IF inTable /\ ~LowOverflows(cs)
                  THEN [m.t EXCEPT !.clusters = Put(m.t.clusters, h, cr.t)]
                  ELSE m.t
          prune == inTable /\ ~LowOverflows(cs) /\ ~cr.err
                     /\ is_empty(cr.t) /\ t1.summary # None
          sr == IF prune THEN Remove(t1.summary[1], h) ELSE OkT(None, None)
          t2 == IF prune THEN [t1 EXCEPT !.summary = Some(sr.t)] ELSE t1
      IN IF inTable /\ LowOverflows(cs) THEN PanicT(m.t)
         ELSE IF cr.err THEN PanicT(t1)
         ELSE IF sr.err THEN PanicT(t2)
         ELSE RemoveMaxStep(t2, key)

\* ---------------------------------------------------------------- successor
\* VebTreeMap::successor.
RECURSIVE Successor(_, _)
Successor(t, key) ==
  IF KeyAssertFails(t, key) THEN Panic
  ELSE IF t.min # None /\ key < t.min[1][1] THEN Ok(Some(t.min[1]))
  ELSE
    LET cs == t.cluster_size
        h == high(key, cs)
        hasMax == h \in DOMAIN t.clusters /\ Max(t.clusters[h]) # None
        cluster_max == Max(t.clusters[h])[1][1]
        inner == Successor(t.clusters[h], low(key, cs))
        sh == Successor(t.summary[1], h)
    IN IF hasMax /\ LowOverflows(cs) THEN Panic
       ELSE IF hasMax /\ low(key, cs) < cluster_max
         THEN IF inner.err \/ inner.r = None THEN Panic
              ELSE IF IndexOverflows(h, inner.r[1][1], cs) THEN Panic
              ELSE Ok(Some(<<index(h, inner.r[1][1], cs), inner.r[1][2]>>))
       ELSE IF t.summary # None /\ sh.err THEN Panic
       ELSE IF t.summary # None /\ sh.r # None
                 /\ sh.r[1][1] \in DOMAIN t.clusters
                 /\ Min(t.clusters[sh.r[1][1]]) # None
         THEN LET next_h == sh.r[1][1]
                  nm == Min(t.clusters[next_h])[1]
              IN IF IndexOverflows(next_h, nm[1], cs) THEN Panic
                 ELSE Ok(Some(<<index(next_h, nm[1], cs), nm[2]>>))
       ELSE IF t.max # None /\ key < t.max[1][1] THEN Ok(Some(t.max[1]))
       ELSE Ok(None)

\* -------------------------------------------------------------- predecessor
\* VebTreeMap::predecessor.
RECURSIVE Predecessor(_, _)
Predecessor(t, key) ==
  IF KeyAssertFails(t, key) THEN Panic
  ELSE IF t.max # None /\ key > t.max[1][1] THEN Ok(Some(t.max[1]))
  ELSE
    LET cs == t.cluster_size
        h == high(key, cs)
        hasMin == h \in DOMAIN t.clusters /\ Min(t.clusters[h]) # None
        cluster_min == Min(t.clusters[h])[1][1]
        inner == Predecessor(t.clusters[h], low(key, cs))
        ph == Predecessor(t.summary[1], h)
    IN IF hasMin /\ LowOverflows(cs) THEN Panic
       ELSE IF hasMin /\ low(key, cs) > cluster_min
         THEN IF inner.err \/ inner.r = None THEN Panic
              ELSE IF IndexOverflows(h, inner.r[1][1], cs) THEN Panic
              ELSE Ok(Some(<<index(h, inner.r[1][1], cs), inner.r[1][2]>>))
       ELSE IF t.summary # None /\ ph.err THEN Panic
       ELSE IF t.summary # None /\ ph.r # None
                 /\ ph.r[1][1] \in DOMAIN t.clusters
                 /\ Max(t.clusters[ph.r[1][1]]) # None
         THEN LET prev_h == ph.r[1][1]
                  pm == Max(t.clusters[prev_h])[1]
              IN IF IndexOverflows(prev_h, pm[1], cs) THEN Panic
                 ELSE Ok(Some(<<index(prev_h, pm[1], cs), pm[2]>>))
       ELSE IF t.min # None /\ key > t.min[1][1] THEN Ok(Some(t.min[1]))
       ELSE Ok(None)

\* ------------------------------------------------------------ the workload
\* The keys the calls are made with, all in the universe of u8: the keys 0
\* and 1 of the tests, keys that share the top-level cluster 0 (1, 5 and 6, of
\* which 1 and 5 differ by a multiple of 4), the largest key u8::MAX, then a
\* key of the top-level cluster 1 and more keys of both clusters.
KeySeq == <<0, 1, 5, 6, 255, 16, 7, 17>>
Keys == {KeySeq[i] : i \in 1..NumKeys}
\* The values the calls are made with. V is a type parameter of which the
\* code uses Clone and Debug only, so it moves values about and never looks
\* into one: two values tell an old value from a new one.
Values == {0, 1}

\* A second set of keys for the calls, one key in each of the top-level
\* clusters 0 to 4 (the keys h << 4, whose low is 0), so that the summary
\* of the top-level node holds several keys and opens clusters of its own.
SpreadKeys == {0, 16, 32, 48, 64}

\* A third set of keys: the smallest and the largest key and one key in each
\* of the top-level clusters 0, 4, 8, 12 and 15, so that the summary of the
\* top-level node holds five cluster numbers in three clusters of its own,
\* and its summary in turn opens nodes of width 1.
DeepKeys == {0, 1, 64, 128, 192, 240, 255}

\* The reference ordered map: a plain function from key to Option<V>.
RefNew == [k \in Keys \cup SpreadKeys \cup DeepKeys |-> None]
RefGet(m, k) == m[k]
RefInsert(m, k, v) == [m EXCEPT ![k] = Some(v)]
RefRemove(m, k) == [m EXCEPT ![k] = None]
Live(m) == {k \in DOMAIN m : m[k] # None}
RefMin(m) ==
  IF Live(m) = {} THEN None
  ELSE LET j == CHOOSE x \in Live(m) : \A y \in Live(m) : x <= y
       IN Some(<<j, m[j][1]>>)
RefMax(m) ==
  IF Live(m) = {} THEN None
  ELSE LET j == CHOOSE x \in Live(m) : \A y \in Live(m) : x >= y
       IN Some(<<j, m[j][1]>>)
RefSuccessor(m, k) == RefMin([j \in DOMAIN m |-> IF j > k THEN m[j] ELSE None])
RefPredecessor(m, k) == RefMax([j \in DOMAIN m |-> IF j < k THEN m[j] ELSE None])

VARIABLES
  tree,      \* the VebTreeMap<u8, V> under test
  live,      \* the reference map run in lock-step
  prev,      \* the tree as it was before the observed call
  prevLive,  \* the reference map as it was before the observed call
  last,      \* the observed call: name, arguments, result, the reference's result
  arith      \* the key-arithmetic exercise: a key of a node being split and rejoined

vars == <<tree, live, prev, prevLive, last, arith>>

\* A run is any sequence of mutating calls (the set-up) followed by one
\* observed call, whose arguments and results are kept in last and whose
\* pre-state is kept in prev / prevLive. A call that panics is always
\* observed: the panic unwinds out of the caller and no call follows it.
Call(op, key, value, res, ref) ==
  [op |-> op, key |-> key, value |-> value, err |-> res.err, ret |-> res.r,
   ref |-> ref]
NoCall == Call("none", 0, 0, Ok(None), None)

\* The key-arithmetic exercise at rest.
ArithIdle ==
  [pc |-> "idle", w |-> max_size, key |-> 0, h |-> 0, l |-> 0, idx |-> 0,
   err |-> FALSE]

\* let mut t = VebTreeMap::<u8, V>::new();
Init ==
  /\ tree = new
  /\ live = RefNew
  /\ prev = new
  /\ prevLive = RefNew
  /\ last = NoCall
  /\ arith = ArithIdle

\* No call has been observed yet (and so none has panicked).
Running == last.op = "none"

Observe(observed, call) ==
  /\ UNCHANGED arith
  /\ last' = IF observed \/ call.err THEN call ELSE NoCall
  /\ prev' = IF observed \/ call.err THEN tree ELSE new
  /\ prevLive' = IF observed \/ call.err THEN live ELSE RefNew

\* t.insert(k, v)
DoInsert(k, v, observed) ==
  /\ Running
  /\ LET res == Insert(tree, k, v) IN
       /\ tree' = res.t
       /\ Observe(observed, Call("insert", k, v, res, RefGet(live, k)))
  /\ live' = RefInsert(live, k, v)

\* t.remove(&k)
DoRemove(k, observed) ==
  /\ Running
  /\ LET res == Remove(tree, k) IN
       /\ tree' = res.t
       /\ Observe(observed, Call("remove", k, 0, res, None))
  /\ live' = RefRemove(live, k)

\* t.clear()
DoClear(observed) ==
  /\ Running
  /\ tree' = clear(tree)
  /\ live' = RefNew
  /\ Observe(observed, Call("clear", 0, 0, Ok(None), None))

\* A query leaves the map as it is; what it returned is observed.
Query(op, k, res, ref) ==
  /\ Running
  /\ Observe(TRUE, Call(op, k, 0, res, ref))
  /\ UNCHANGED <<tree, live>>

\* t.get(&k)
DoGet(k) == Query("get", k, Get(tree, k), RefGet(live, k))
\* t.successor(&k)
DoSuccessor(k) == Query("successor", k, Successor(tree, k), RefSuccessor(live, k))
\* t.predecessor(&k)
DoPredecessor(k) ==
  Query("predecessor", k, Predecessor(tree, k), RefPredecessor(live, k))
\* t.min()
DoMin == Query("min", 0, Ok(Min(tree)), RefMin(live))
\* t.max()
DoMax == Query("max", 0, Ok(Max(tree)), RefMax(live))
\* t.is_empty()
DoIsEmpty == Query("is_empty", 0, Ok(Some(is_empty(tree))), Some(Live(live) = {}))

Next ==
  \/ \E k \in Keys, v \in Values, o \in BOOLEAN : DoInsert(k, v, o)
  \/ \E k \in Keys, o \in BOOLEAN : DoRemove(k, o)
  \/ \E o \in BOOLEAN : DoClear(o)
  \/ \E k \in Keys : DoGet(k)
  \/ \E k \in Keys : DoSuccessor(k)
  \/ \E k \in Keys : DoPredecessor(k)
  \/ DoMin
  \/ DoMax
  \/ DoIsEmpty

Spec == Init /\ [][Next]_vars

\* The same calls made with the keys of SpreadKeys.
SpreadNext ==
  \/ \E k \in SpreadKeys, v \in Values, o \in BOOLEAN : DoInsert(k, v, o)
  \/ \E k \in SpreadKeys, o \in BOOLEAN : DoRemove(k, o)
  \/ \E o \in BOOLEAN : DoClear(o)
  \/ \E k \in SpreadKeys : DoGet(k)
  \/ \E k \in SpreadKeys : DoSuccessor(k)
  \/ \E k \in SpreadKeys : DoPredecessor(k)
  \/ DoMin
  \/ DoMax
  \/ DoIsEmpty

SpecSpread == Init /\ [][SpreadNext]_vars

\* ------------------------------------------------------- the recursive calls
\* One invocation of a method on a node: the node's width, the width of the
\* node whose method made the call (0 for the caller's own call on the map)
\* and the nesting depth of the call.
Visit(t, parent, depth) ==
  <<[width |-> t.max_size, parent |-> parent, depth |-> depth]>>

\* The invocations of get that get(key) on t makes, itself included.
RECURSIVE GetCalls(_, _, _, _)
GetCalls(t, key, parent, depth) ==
  Visit(t, parent, depth) \o
  (IF KeyAssertFails(t, key) THEN <<>>
   ELSE IF t.min # None /\ key <= t.min[1][1] THEN <<>>
   ELSE IF t.max # None /\ key >= t.max[1][1] THEN <<>>
   ELSE LET h == high(key, t.cluster_size) IN
        IF h \notin DOMAIN t.clusters \/ LowOverflows(t.cluster_size) THEN <<>>
        ELSE GetCalls(t.clusters[h], low(key, t.cluster_size),
                      t.max_size, depth + 1))

\* The invocations of insert that insert(key0, value0) on t makes: on the
\* summary when the cluster is empty (line 191), then on the cluster (196).
RECURSIVE InsertCalls(_, _, _, _, _)
InsertCalls(t, key0, value0, parent, depth) ==
  Visit(t, parent, depth) \o
  (IF KeyAssertFails(t, key0) \/ is_empty(t) THEN <<>>
   ELSE
     LET a == InsertMinStep(t, key0, value0)
         b == InsertMaxStep(t, a.key, a.value, a.ret)
         cs == t.cluster_size
         h == high(b.key, cs)
         cluster == IF h \in DOMAIN t.clusters THEN t.clusters[h]
                    ELSE with_max_size(cs)
         sum0 == IF t.summary = None THEN with_max_size(cs) ELSE t.summary[1]
     IN IF b.ret # None \/ (a.min # None /\ b.key = a.min[1][1]) THEN <<>>
        ELSE (IF is_empty(cluster)
                THEN InsertCalls(sum0, h, Unit, t.max_size, depth + 1)
                ELSE <<>>)
             \o
             (IF (is_empty(cluster) /\ Insert(sum0, h, Unit).err)
                   \/ LowOverflows(cs) THEN <<>>
              ELSE InsertCalls(cluster, low(b.key, cs), b.value,
                               t.max_size, depth + 1)))

\* The invocations of remove that remove(key0) on t makes: on the cluster
\* (line 234), then on the summary when the cluster is empty (line 237).
RECURSIVE RemoveCalls(_, _, _, _)
RemoveCalls(t, key0, parent, depth) ==
  Visit(t, parent, depth) \o
  (IF KeyAssertFails(t, key0) THEN <<>>
   ELSE
     LET m == RemoveMinStep(t, key0)
         cs == t.cluster_size
         h == high(m.key, cs)
         down == h \in DOMAIN m.t.clusters /\ ~LowOverflows(cs)
         cr == Remove(m.t.clusters[h], low(m.key, cs))
     IN IF m.err \/ m.done \/ ~down THEN <<>>
        ELSE RemoveCalls(m.t.clusters[h], low(m.key, cs), t.max_size, depth + 1)
             \o
             (IF ~cr.err /\ is_empty(cr.t) /\ m.t.summary # None
                THEN RemoveCalls(m.t.summary[1], h, t.max_size, depth + 1)
                ELSE <<>>))

\* The invocations of successor that successor(key) on t makes: on the
\* cluster of the key (line 288), or else on the summary (line 305).
RECURSIVE SuccessorCalls(_, _, _, _)
SuccessorCalls(t, key, parent, depth) ==
  Visit(t, parent, depth) \o
  (IF KeyAssertFails(t, key) THEN <<>>
   ELSE IF t.min # None /\ key < t.min[1][1] THEN <<>>
   ELSE
     LET cs == t.cluster_size
         h == high(key, cs)
         hasMax == h \in DOMAIN t.clusters /\ Max(t.clusters[h]) # None
     IN IF hasMax /\ LowOverflows(cs) THEN <<>>
        ELSE IF hasMax /\ low(key, cs) < Max(t.clusters[h])[1][1]
          THEN SuccessorCalls(t.clusters[h], low(key, cs), t.max_size, depth + 1)
        ELSE IF t.summary # None
          THEN SuccessorCalls(t.summary[1], h, t.max_size, depth + 1)
        ELSE <<>>)

\* The invocations of predecessor that predecessor(key) on t makes: on the
\* cluster of the key (line 347), or else on the summary (line 364).
RECURSIVE PredecessorCalls(_, _, _, _)
PredecessorCalls(t, key, parent, depth) ==
  Visit(t, parent, depth) \o
  (IF KeyAssertFails(t, key) THEN <<>>
   ELSE IF t.max # None /\ key > t.max[1][1] THEN <<>>
   ELSE
     LET cs == t.cluster_size
         h == high(key, cs)
         hasMin == h \in DOMAIN t.clusters /\ Min(t.clusters[h]) # None
     IN IF hasMin /\ LowOverflows(cs) THEN <<>>
        ELSE IF hasMin /\ low(key, cs) > Min(t.clusters[h])[1][1]
          THEN PredecessorCalls(t.clusters[h], low(key, cs), t.max_size, depth + 1)
        ELSE IF t.summary # None
          THEN PredecessorCalls(t.summary[1], h, t.max_size, depth + 1)
        ELSE <<>>)

\* Inserts made with the keys of DeepKeys on a map of unit values,
\* VebTreeMap<u8, ()> (the path of a call does not depend on the values),
\* and then a remove, observed.
DeepNext ==
  \/ \E k \in DeepKeys : DoInsert(k, Unit, FALSE)
  \/ \E k \in DeepKeys : DoRemove(k, TRUE)

SpecDeep == Init /\ [][DeepNext]_vars

\* ------------------------------------------------- the key arithmetic alone
\* The universe widths of the nodes from a node of width w down that split
\* keys: each child has the width cluster_size(w)
\* (with_max_size(self.cluster_size)). A node whose cluster_size is 0 has
\* width 1 and the keys 0 and 1, which its min and max hold: it never opens a
\* cluster, so it never takes the low of a key.
RECURSIVE Descent(_)
Descent(w) ==
  IF cluster_size(w) = 0 THEN {} ELSE {w} \cup Descent(cluster_size(w))
Widths == Descent(max_size)

\* A node of any of these widths is handed any key of its universe.
KeyInit ==
  /\ tree = new
  /\ live = RefNew
  /\ prev = new
  /\ prevLive = RefNew
  /\ last = NoCall
  /\ arith \in {[ArithIdle EXCEPT !.pc = "input", !.w = w, !.key = k] :
                  w \in Widths, k \in 0..MAX}
  /\ arith.key <= size_to_key(arith.w)

\* let h = key.high(&self.cluster_size); let l = key.low(&self.cluster_size);
KeySplit ==
  /\ arith.pc = "input"
  /\ LET cs == cluster_size(arith.w) IN
       arith' = [arith EXCEPT !.pc = "split",
                              !.h = high(arith.key, cs),
                              !.l = low(arith.key, cs),
                              !.err = LowOverflows(cs)]
  /\ UNCHANGED <<tree, live, prev, prevLive, last>>

\* h.index(l, &self.cluster_size)
KeyJoin ==
  /\ arith.pc = "split"
  /\ ~arith.err
  /\ LET cs == cluster_size(arith.w) IN
       arith' = [arith EXCEPT !.pc = "joined",
                              !.idx = index(arith.h, arith.l, cs),
                              !.err = IndexOverflows(arith.h, arith.l, cs)]
  /\ UNCHANGED <<tree, live, prev, prevLive, last>>

KeyNext == KeySplit \/ KeyJoin

SpecKey == KeyInit /\ [][KeyNext]_vars

\* ------------------------------------------------------- the successor walk
\* The walk of verify_predecessor_successor: from a key, apply successor until
\* it is absent, collecting the keys yielded. The test's loop gives up
\* (prop_assert!(i < keys.len())) once more steps were taken than there are
\* keys; fuel counts the steps still allowed.
RECURSIVE WalkFrom(_, _, _)
WalkFrom(t, key, fuel) ==
  LET s == Successor(t, key) IN
  IF s.err THEN [err |-> TRUE, r |-> <<key>>]
  ELSE IF s.r = None \/ fuel = 0 THEN [err |-> FALSE, r |-> <<key>>]
  ELSE LET rest == WalkFrom(t, s.r[1][1], fuel - 1)
       IN [err |-> rest.err, r |-> <<key>> \o rest.r]

\* let min = t.min(); let mut key = min.unwrap().0; loop { t.successor(&key) }
Walk(t) ==
  IF Min(t) = None THEN Ok(<<>>)
  ELSE WalkFrom(t, Min(t)[1][1], Cardinality(Keys))

\* keys.sort_unstable(): the live keys in ascending order.
RECURSIVE Ascending(_)
Ascending(S) ==
  IF S = {} THEN <<>>
  ELSE LET m == CHOOSE x \in S : \A y \in S : x <= y
       IN <<m>> \o Ascending(S \ {m})

\* The walk over the whole map, observed.
DoWalk == Query("walk", 0, Walk(tree), Ascending(Live(live)))

\* for k in keys.iter() { t.insert(*k, *k); } and then the walk.
WalkNext ==
  \/ \E k \in Keys, v \in Values : DoInsert(k, v, FALSE)
  \/ DoWalk

SpecWalk == Init /\ [][WalkNext]_vars

\* ------------------------------------------------------------------ claims
IsQueryOrInsert == last.op \in {"insert", "get", "successor", "predecessor"}

\* C1: every insert, get, successor and predecessor call returns what the
\* reference ordered map returns for the same call (and does not panic).
C1_SameAsReference ==
  IsQueryOrInsert => (~last.err /\ last.ret = last.ref)

\* C2: after remove(k), get(k) is absent and get(j) is what it was before the
\* remove for every other key j; in particular after insert(0,0), insert(1,1),
\* remove(0): get(1) = 1 and min() = (1,1).
C2_RemoveFrame ==
  last.op = "remove" =>
    /\ ~last.err
    /\ Get(tree, last.key) = Ok(None)
    /\ \A j \in Keys \ {last.key} : Get(tree, j) = Get(prev, j)
    /\ (prev = Insert(Insert(new, 0, 0).t, 1, 1).t /\ last.key = 0) =>
         (Get(tree, 1) = Ok(Some(1)) /\ Min(tree) = Some(<<1, 1>>))

\* C3: at every width w in use, with cb = w/2, every key < 2^w splits into
\* low = key mod 2^cb and high = key div 2^cb, index(high, low) gives the key
\* back, and so no other key of the node has the same (high, low) pair.
C3_SplitJoin ==
  LET cb == cluster_size(arith.w) IN
  /\ arith.pc \in {"split", "joined"} =>
       /\ ~arith.err
       /\ arith.l = arith.key % (2 ^ cb)
       /\ arith.h = arith.key \div (2 ^ cb)
       /\ \A k2 \in 0..size_to_key(arith.w) :
            k2 # arith.key => <<high(k2, cb), low(k2, cb)>> # <<arith.h, arith.l>>
  /\ arith.pc = "joined" => arith.idx = arith.key

\* C4: insert(k, v) returns the value get(k) returned just before the call when
\* k was in the live set, and absent when k was not in the live set.
C4_InsertReturnsOld ==
  last.op = "insert" =>
    /\ ~last.err
    /\ RefGet(prevLive, last.key) # None => last.ret = Get(prev, last.key).r
    /\ RefGet(prevLive, last.key) = None => last.ret = None

\* C5: immediately after insert(k, v), get(k) returns v, whether k was new or
\* already present with another value.
C5_GetAfterInsert ==
  last.op = "insert" =>
    (~last.err /\ Get(tree, last.key) = Ok(Some(last.value)))

\* C5 witness: an insert that went down into a cluster, and one that overwrote
\* another value, each followed by a get that returns the inserted value.
C5_Witness ==
  /\ last.op = "insert"
  /\ ~last.err
  /\ last.ref # None
  /\ last.ref # Some(last.value)
  /\ tree.min # None /\ tree.min[1][1] < last.key
  /\ tree.max # None /\ last.key < tree.max[1][1]
  /\ high(last.key, tree.cluster_size) \in DOMAIN tree.clusters
  /\ Get(prev, last.key) = Ok(last.ref)
  /\ Get(tree, last.key) = Ok(Some(last.value))

\* C6: insert(k, v) changes nothing but k: for every key j # k, get(j) after
\* the insert equals get(j) before it.
C6_InsertFrame ==
  last.op = "insert" =>
    /\ ~last.err
    /\ \A j \in Keys \ {last.key} : Get(tree, j) = Get(prev, j)

\* C7: successor(k) returns the smallest live key greater than k with its
\* current value, and absent exactly when no live key is greater than k.
C7_Successor ==
  last.op = "successor" =>
    (~last.err /\ last.ret = RefSuccessor(live, last.key))

\* C8: predecessor(k) returns the largest live key smaller than k with its
\* current value, and absent exactly when no live key is smaller than k.
C8_Predecessor ==
  last.op = "predecessor" =>
    (~last.err /\ last.ret = RefPredecessor(live, last.key))

\* C9: min() returns the smallest live key with its current value, max() the
\* largest, and both are absent exactly when the live set is empty.
C9_MinMax ==
  /\ last.op = "min" => last.ret = RefMin(live)
  /\ last.op = "max" => last.ret = RefMax(live)

\* C10: a key returned by successor(k) is greater than k, and a key returned
\* by predecessor(k) is smaller than k.
C10_Strict ==
  /\ (last.op = "successor" /\ last.ret # None) => last.ret[1][1] > last.key
  /\ (last.op = "predecessor" /\ last.ret # None) => last.ret[1][1] < last.key

\* C11: after inserts only, the walk from min().key by successor yields exactly
\* the live keys in strictly ascending order, each once, and then absent.
C11_SuccessorWalk ==
  last.op = "walk" => (~last.err /\ last.ret = last.ref)

\* C12: in a non-empty map, successor(max().key) is absent and
\* predecessor(min().key) is absent.
C12_AbsentAtEnds ==
  ~is_empty(tree) =>
    /\ Max(tree) # None => Successor(tree, Max(tree)[1][1]) = Ok(None)
    /\ Min(tree) # None => Predecessor(tree, Min(tree)[1][1]) = Ok(None)

\* Every query of the public interface answers the same on maps a and b.
SameAnswers(a, b) ==
  /\ is_empty(a) = is_empty(b)
  /\ Min(a) = Min(b)
  /\ Max(a) = Max(b)
  /\ \A j \in Keys :
       /\ Get(a, j) = Get(b, j)
       /\ Successor(a, j) = Successor(b, j)
       /\ Predecessor(a, j) = Predecessor(b, j)

\* C13: remove(k) of a key k that is not live is a no-op: get, min, max,
\* successor, predecessor and is_empty answer after it as they did before.
C13_RemoveAbsentNoOp ==
  (last.op = "remove" /\ RefGet(prevLive, last.key) = None) =>
    (~last.err /\ SameAnswers(prev, tree))

\* C14: is_empty() is true exactly when the live set (keys inserted and not
\* since removed) is empty.
C14_IsEmpty ==
  last.op = "is_empty" => last.ret = Some(Live(live) = {})

\* C15: no insert, remove, get, successor or predecessor call with a key of
\* the universe fails: no expect() of remove, no panic of successor or
\* predecessor and no key assertion of a nested node fires.
C15_NoFailure == ~last.err

\* C16: after clear() the map is empty: is_empty() is true, min() and max()
\* are absent, get(k) is absent for every key, and every next call returns
\* and leaves what it does on a map made by new().
C16_Clear ==
  last.op = "clear" =>
    /\ ~last.err
    /\ is_empty(tree)
    /\ Min(tree) = None
    /\ Max(tree) = None
    /\ \A k \in Keys : Get(tree, k) = Ok(None)
    /\ SameAnswers(tree, new)
    /\ \A k \in Keys :
         /\ Remove(tree, k) = Remove(new, k)
         /\ \A v \in Values : Insert(tree, k, v) = Insert(new, k, v)

\* C16 witness: clear() of a map that held keys in its min, its max and in a
\* cluster named by its summary, and is empty afterwards.
C16_Witness ==
  /\ last.op = "clear"
  /\ ~is_empty(prev)
  /\ Min(prev) # Max(prev)
  /\ SummaryMin(prev) # None
  /\ \E h \in DOMAIN prev.clusters : ~is_empty(prev.clusters[h])
  /\ \E k \in Keys : Get(prev, k) # Ok(None)
  /\ is_empty(tree)
  /\ \A k \in Keys : Get(tree, k) = Ok(None)

\* C17: remove(k) on a node whose min key is k, whose max key is another key
\* and whose summary is empty or absent leaves the singleton of the old max:
\* min = max = (old max key, old max value), and the node is not empty.
C17_RemoveMinLeavesMax ==
  (/\ last.op = "remove"
   /\ Min(prev) # None /\ Min(prev)[1][1] = last.key
   /\ Max(prev) # None /\ Max(prev)[1][1] # last.key
   /\ SummaryMin(prev) = None) =>
    /\ ~last.err
    /\ Min(tree) = Max(prev)
    /\ Max(tree) = Max(prev)
    /\ ~is_empty(tree)

\* Every node of the tree under t, listed: t, the node of its summary, its
\* clusters, and the nodes under those.
RECURSIVE Nodes(_)
RECURSIVE ClusterNodes(_, _)
Nodes(t) ==
  <<t>> \o (IF t.summary = None THEN <<>> ELSE Nodes(t.summary[1]))
        \o ClusterNodes(t, DOMAIN t.clusters)
ClusterNodes(t, hs) ==
  IF hs = {} THEN <<>>
  ELSE LET h == CHOOSE x \in hs : TRUE
       IN Nodes(t.clusters[h]) \o ClusterNodes(t, hs \ {h})

\* The summary of node n holds the cluster number h.
InSummary(n, h) == n.summary # None /\ Get(n.summary[1], h) # Ok(None)

\* C18: between operations, in every node, the summary holds exactly the
\* high values h for which clusters[h] exists and is non-empty.
C18_SummaryFidelity ==
  \A i \in DOMAIN Nodes(tree) :
    LET n == Nodes(tree)[i] IN
    \A h \in 0..size_to_key(n.max_size - n.cluster_size) :
      InSummary(n, h) <=> (h \in DOMAIN n.clusters /\ ~is_empty(n.clusters[h]))

\* Node n stores a key: in its min, in its max or somewhere in its clusters.
RECURSIVE Stored(_)
Stored(n) ==
  \/ n.min # None
  \/ n.max # None
  \/ \E h \in DOMAIN n.clusters : Stored(n.clusters[h])

\* C19: between operations, in every node whose min is absent, max is absent,
\* the summary holds no key and no cluster holds a key (so an empty node
\* hides no key that a later insert could make visible again).
C19_EmptyNode ==
  \A i \in DOMAIN Nodes(tree) :
    LET n == Nodes(tree)[i] IN
    is_empty(n) =>
      /\ n.max = None
      /\ n.summary # None => ~Stored(n.summary[1])
      /\ \A h \in DOMAIN n.clusters : ~Stored(n.clusters[h])

\* C20: between operations, in every node, the key stored in min is in none
\* of the node's clusters: clusters[high(min.key)], if it exists, does not
\* hold low(min.key).
C20_MinExclusion ==
  \A i \in DOMAIN Nodes(tree) :
    LET n == Nodes(tree)[i] IN
    (n.min # None /\ high(n.min[1][1], n.cluster_size) \in DOMAIN n.clusters) =>
      Get(n.clusters[high(n.min[1][1], n.cluster_size)],
          low(n.min[1][1], n.cluster_size)) = Ok(None)

\* C21: between operations, in every node with min.key # max.key, the key
\* stored in max is also stored in clusters[high(max.key)] and is that
\* cluster's own max: clusters[high(max.key)].max.key = low(max.key).
C21_MaxInclusion ==
  \A i \in DOMAIN Nodes(tree) :
    LET n == Nodes(tree)[i] IN
    (n.min # None /\ n.max # None /\ n.min[1][1] # n.max[1][1]) =>
      LET h == high(n.max[1][1], n.cluster_size) IN
      /\ h \in DOMAIN n.clusters
      /\ Max(n.clusters[h]) # None
      /\ Max(n.clusters[h])[1][1] = low(n.max[1][1], n.cluster_size)

\* C22: between operations, no node's cluster table has an entry whose
\* cluster is empty (a remove that empties a cluster drops its entry), and no
\* node without clusters keeps a summary.
C22_NoEmptyCluster ==
  \A i \in DOMAIN Nodes(tree) :
    LET n == Nodes(tree)[i] IN
    /\ \A h \in DOMAIN n.clusters : ~is_empty(n.clusters[h])
    /\ n.summary # None => DOMAIN n.clusters # {}

\* The number of times a width w can be halved before it is 1 or less.
RECURSIVE Halvings(_)
Halvings(w) == IF w <= 1 THEN 0 ELSE 1 + Halvings(w \div 2)

\* Every nested call of calls is made by a node of width over 1 on a node of
\* half that width, and no call is nested deeper than the halvings of the
\* top-level width.
HalvingCalls(calls) ==
  \A i \in DOMAIN calls :
    /\ calls[i].depth <= Halvings(BITS)
    /\ calls[i].depth > 0 =>
         /\ calls[i].parent > 1
         /\ calls[i].width = calls[i].parent \div 2
         /\ calls[i].width < calls[i].parent

\* C23: every insert, remove, get, successor and predecessor call ends: its
\* recursion goes to nodes of strictly halving width, never into a child of
\* a node of width 1 or less, so no deeper than the halvings of the width.
C23_HalvingRecursion ==
  \A k \in DeepKeys :
    /\ HalvingCalls(GetCalls(tree, k, 0, 0))
    /\ HalvingCalls(RemoveCalls(tree, k, 0, 0))
    /\ HalvingCalls(SuccessorCalls(tree, k, 0, 0))
    /\ HalvingCalls(PredecessorCalls(tree, k, 0, 0))
    /\ \A v \in Values : HalvingCalls(InsertCalls(tree, k, v, 0, 0))

\* A call of calls is on a node of width 1, at the greatest depth.
ReachesWidthOne(calls) ==
  \E i \in DOMAIN calls :
    calls[i].width = 1 /\ calls[i].depth = Halvings(BITS)

\* C23 witness: a map on which an insert, a remove and a successor call each
\* go all the way down to a node of width 1 and end there.
C23_Witness ==
  /\ \E k \in DeepKeys, v \in Values : ReachesWidthOne(InsertCalls(tree, k, v, 0, 0))
  /\ \E k \in DeepKeys : ReachesWidthOne(RemoveCalls(tree, k, 0, 0))
  /\ \E k \in DeepKeys : ReachesWidthOne(SuccessorCalls(tree, k, 0, 0))
  /\ C23_HalvingRecursion

\* get returns for the key of the pair p, if there is one, the value of p.
GetAgrees(t, p) == p # None => Get(t, p[1][1]) = Ok(Some(p[1][2]))

\* C24: the query paths agree on values: a pair (j, v) returned by
\* successor(k) or predecessor(k), by min() or by max() has get(j) = v, also
\* after the value of the min's or the max's key was overwritten.
C24_ValuesAgree ==
  /\ GetAgrees(tree, Min(tree))
  /\ GetAgrees(tree, Max(tree))
  /\ \A k \in Keys :
       /\ ~Successor(tree, k).err /\ GetAgrees(tree, Successor(tree, k).r)
       /\ ~Predecessor(tree, k).err /\ GetAgrees(tree, Predecessor(tree, k).r)

====
